---- MODULE Spec2Model ----
(***************************************************************************)
(* gitlab-issuereporter (main.go): a straight-line command-line program.   *)
(* Strings are sequences of atoms (an atom is a piece of text that the     *)
(* code never looks inside: "/", "f5", "token:", " ").  Concatenating the  *)
(* atoms of a sequence gives the Go string.                                *)
(*                                                                         *)
(* Three entry points share the state: the run of main (pc = "start"),     *)
(* a call of extractProjectPath on an arbitrary link (pc = "link_call")    *)
(* and a token load on an arbitrary file content (pc = "token_call").      *)
(***************************************************************************)
EXTENDS Integers, Sequences, FiniteSets, TLC

VARIABLES
    pc,             \* position in main / in the called function
    releaseLabel,   \* -release
    readyForTest,   \* -ready-for-test
    blockerLabel,   \* -blocker
    tokenFile,      \* path of the token file
    gitlabToken,    \* token handed to gitlab.NewClient
    projectPath,    \* result of extractProjectPath(gitlabIssuesLink)
    issues,         \* issues returned by ListProjectIssues
    idx,            \* index of the range loop over issues (1-based)
    detailedIssue,  \* result of the last GetIssue
    trace,          \* external operations performed, in order
    buf,            \* rows held by the csv writer's buffer
    werr,           \* sticky error of the buffered writer
    file,           \* rows on disk in the output file
    fileState,      \* "none", "open", "closed"
    exitCode,       \* -1 while running, 0 normal return, 1 log.Fatal
    errors,         \* kinds of error that have occurred in this run
    logged,         \* messages given to log.Print*/log.Fatal*
    stdout,         \* lines printed with fmt.Println
    link,           \* argument of extractProjectPath
    linkResult,     \* its result
    tokenContent,   \* content of the token file (token_call entry)
    tokenResult     \* token computed from it

vars == <<pc, releaseLabel, readyForTest, blockerLabel, tokenFile, gitlabToken,
          projectPath, issues, idx, detailedIssue, trace, buf, werr, file,
          fileState, exitCode, errors, logged, stdout, link, linkResult,
          tokenContent, tokenResult>>

(***************************************************************************)
(* Bounds of the model.                                                    *)
(***************************************************************************)
MaxIssues == 2      \* issues returned by one list call
BufRows == 2        \* records that fit the csv writer's buffer
MaxPathLen == 7     \* atoms of a URL path after its leading slash
MaxTokenLen == 4    \* atoms of a token file

PerPage == 100

None == <<"<none>">>

BoundedSeq(S, n) == UNION {[1..k -> S] : k \in 0..n}

(***************************************************************************)
(* package strings                                                         *)
(***************************************************************************)
\* unicode.IsSpace.  Characters that have no escape in a TLA+ string are
\* written as atoms naming their code point.
Space == {" ", "\n", "\t", "\r", "\f", "<U+000B>", "<U+0085>", "<U+00A0>",
          "<U+1680>", "<U+2000>", "<U+2001>", "<U+2002>", "<U+2003>", "<U+2004>",
          "<U+2005>", "<U+2006>", "<U+2007>", "<U+2008>", "<U+2009>", "<U+200A>",
          "<U+2028>", "<U+2029>", "<U+202F>", "<U+205F>", "<U+3000>"}

RECURSIVE TrimLeftSpace(_)
TrimLeftSpace(s) ==
    IF s # <<>> /\ Head(s) \in Space THEN TrimLeftSpace(Tail(s)) ELSE s

RECURSIVE TrimRightSpace(_)
TrimRightSpace(s) ==
    IF s # <<>> /\ s[Len(s)] \in Space
    THEN TrimRightSpace(SubSeq(s, 1, Len(s) - 1))
    ELSE s

TrimSpace(s) == TrimRightSpace(TrimLeftSpace(s))

HasPrefix(s, p) == Len(s) >= Len(p) /\ SubSeq(s, 1, Len(p)) = p

TrimPrefix(s, p) == IF HasPrefix(s, p) THEN SubSeq(s, Len(p) + 1, Len(s)) ELSE s

\* strings.Split(s, sep) for a one-atom separator: always at least one segment.
RECURSIVE Split(_, _)
Split(s, sep) ==
    IF s = <<>> THEN << <<>> >>
    ELSE IF Head(s) = sep THEN << <<>> >> \o Split(Tail(s), sep)
    ELSE LET rest == Split(Tail(s), sep)
         IN  << <<Head(s)>> \o Head(rest) >> \o Tail(rest)

RECURSIVE Join(_, _)
Join(segs, sep) ==
    IF segs = <<>> THEN <<>>
    ELSE IF Len(segs) = 1 THEN Head(segs)
    ELSE Head(segs) \o <<sep>> \o Join(Tail(segs), sep)

\* strings.Replace(s, old, new, 1) for a one-atom old.
RECURSIVE ReplaceFirst(_, _, _)
ReplaceFirst(s, old, new) ==
    IF s = <<>> THEN <<>>
    ELSE IF Head(s) = old THEN new \o Tail(s)
    ELSE <<Head(s)>> \o ReplaceFirst(Tail(s), old, new)

\* %d of fmt.Sprintf for a non-negative integer
Digit(d) == CASE d = 0 -> "0" [] d = 1 -> "1" [] d = 2 -> "2" [] d = 3 -> "3"
              [] d = 4 -> "4" [] d = 5 -> "5" [] d = 6 -> "6" [] d = 7 -> "7"
              [] d = 8 -> "8" [] d = 9 -> "9"

RECURSIVE Itoa(_)
Itoa(n) == IF n < 10 THEN <<Digit(n)>> ELSE Itoa(n \div 10) \o <<Digit(n % 10)>>

\* zero-padded decimal of width w (time.Format's 2006, 01, 02, 15, 04, 05)
RECURSIVE Pad(_, _)
Pad(n, w) == IF w = 0 THEN <<>> ELSE Pad(n \div 10, w - 1) \o <<Digit(n % 10)>>

(***************************************************************************)
(* net/url: url.Parse(link).Path.  A link is <<scheme and host>> followed  *)
(* by the atoms of the raw path, then optionally "?" and the raw query.    *)
(* The path is everything before the first "?", percent-decoded; an        *)
(* invalid escape makes Parse fail.                                        *)
(***************************************************************************)
BadEscape == "%zz"
EscapedSlash == "%2F"

RECURSIVE BeforeQuery(_)
BeforeQuery(s) ==
    IF s = <<>> \/ Head(s) = "?" THEN <<>> ELSE <<Head(s)>> \o BeforeQuery(Tail(s))

Unescape(s) == [i \in 1..Len(s) |-> IF s[i] = EscapedSlash THEN "/" ELSE s[i]]

urlParse(issuesLink) ==
    LET raw == BeforeQuery(Tail(issuesLink))
    IN  IF \E i \in 1..Len(raw) : raw[i] = BadEscape
        THEN [err |-> TRUE, Path |-> <<>>]
        ELSE [err |-> FALSE, Path |-> Unescape(raw)]

(***************************************************************************)
(* extractProjectPath (main.go:17-32): the values returned (err is "" for   *)
(* nil) and the lines it logs.  A log line is a sequence of atoms.         *)
(***************************************************************************)
MinSegments == 5

extractProjectPathShort(issuesLink) ==
    LET u == urlParse(issuesLink)
        pathSegments == Split(u.Path, "/")
    IN  IF u.err
        THEN [err |-> "parse", path |-> <<>>,
              logs |-> << <<"Error parsing GitLab issues link: ", "<parse error>">> >>]
        ELSE IF Len(pathSegments) < MinSegments
        THEN [err |-> "invalid", path |-> <<>>,
              logs |-> << <<"Error extracting project path: ",
                            "invalid GitLab issues link: ">> \o issuesLink >>]
        ELSE [err |-> "", path |-> Join(SubSeq(pathSegments, 2, 4), "/"),
              logs |-> <<>>]

extractProjectPath(issuesLink) ==
    LET u == urlParse(issuesLink)
        pathSegments == Split(u.Path, "/")
    IN  IF u.err
        THEN [err |-> "parse", path |-> <<>>,
              logs |-> << <<"Error parsing GitLab issues link: ", "<parse error>">> >>]
        ELSE IF Len(pathSegments) < MinSegments
        THEN [err |-> "invalid", path |-> <<>>,
              logs |-> << <<"Error extracting project path: ",
                            "invalid GitLab issues link: ">> \o issuesLink >>]
        ELSE [err |-> "", path |-> Join(SubSeq(pathSegments, 2, 5), "/"),
              logs |-> <<>>]

(***************************************************************************)
(* readGitLabTokenFromFile (main.go:35-42) and the prefix removal of main  *)
(* (main.go:72).  read is the outcome of os.ReadFile: an error or the      *)
(* file's content.                                                         *)
(***************************************************************************)
ReadError == <<"<read error>">>

readGitLabTokenFromFile(read) ==
    IF read = ReadError
    THEN [err |-> TRUE, token |-> <<>>,
          logs |-> << <<"Error reading GitLab token file: ">> \o ReadError >>]
    ELSE [err |-> FALSE, token |-> TrimSpace(read), logs |-> <<>>]

TokenPrefix == <<"token:">>

loadToken(read) ==
    LET r == readGitLabTokenFromFile(read)
    IN  IF r.err THEN r
        ELSE [err |-> FALSE, token |-> TrimPrefix(r.token, TokenPrefix), logs |-> r.logs]

(***************************************************************************)
(* resolveHome (main.go:180-187).  home is the outcome of os.UserHomeDir:  *)
(* an error or the home directory.                                         *)
(***************************************************************************)
HomeError == <<"<home error>">>
HomeDir == <<"/home/user">>
TokenFilePath == <<"~", "/.gitlab">>

resolveHome(path, home) ==
    IF home = HomeError
    THEN [path |-> path, logs |-> <<HomeError>>]
    ELSE [path |-> ReplaceFirst(path, "~", home), logs |-> <<>>]

(***************************************************************************)
(* Label sets of the list call (main.go:94-108)                            *)
(***************************************************************************)
ReadyLabel == "READY-FOR-TEST"

labNoCheck(release, ready, blocker) ==
    <<release>>
    \o (IF ready THEN <<ReadyLabel>> ELSE <<>>)
    \o <<blocker>>

lab(release, ready, blocker) ==
    (IF release # "" THEN <<release>> ELSE <<>>)
    \o (IF ready THEN <<ReadyLabel>> ELSE <<>>)
    \o (IF blocker # "" THEN <<blocker>> ELSE <<>>)

notLabels(ready) == IF ready THEN <<>> ELSE <<ReadyLabel>>

\* the condition of main.go:55
validationFailsInverted(release, ready) == release # "" /\ ready

validationFails(release, ready) == release = "" /\ ready

(***************************************************************************)
(* Data returned by the service                                            *)
(***************************************************************************)
Nil == <<"<nil>">>
IIDs == {7, 12}
IssueKinds == [IID : IIDs, Assignee : {Nil, <<"alice">>}]
IssueLists == BoundedSeq(IssueKinds, MaxIssues)

\* outcome of a remote call: an error, or the value returned
Failed == [err |-> TRUE, val |-> <<>>]
Returned(S) == {[err |-> FALSE, val |-> v] : v \in S}

DetailsOf(iid) ==
    {[Title |-> <<t>>,
      WebURL |-> <<"https://gitlab.com/f5/volterra/support/technical/-/issues/">> \o Itoa(iid),
      Author |-> [Username |-> <<"dev">>],
      CreatedAt |-> [Y |-> 2024, Mo |-> 3, D |-> 26, H |-> 9, Mi |-> 5, S |-> 7]]
     : t \in {"bug", "task, urgent"}}

\* time.Format("2006-01-02 15:04:05")
FormatTime(t) ==
    Pad(t.Y, 4) \o <<"-">> \o Pad(t.Mo, 2) \o <<"-">> \o Pad(t.D, 2) \o <<" ">>
    \o Pad(t.H, 2) \o <<":">> \o Pad(t.Mi, 2) \o <<":">> \o Pad(t.S, 2)

(***************************************************************************)
(* Report rows (main.go:139, 148-169)                                      *)
(***************************************************************************)
header == << <<"Issue">>, <<"Summary">>, <<"Assignee">>, <<"Author">>, <<"Date of Creation">> >>

assigneeNoDefault(issue) == issue.Assignee

assignee(issue) == IF issue.Assignee # Nil THEN issue.Assignee ELSE <<"Unassigned">>

issueLink(issue, detailed) == <<"[#">> \o Itoa(issue.IID) \o <<"](">> \o detailed.WebURL \o <<")">>

row(issue, detailed) ==
    << issueLink(issue, detailed),
       detailed.Title,
       assignee(issue),
       detailed.Author.Username,
       FormatTime(detailed.CreatedAt) >>

(***************************************************************************)
(* The csv writer over its buffered writer (main.go:135-136, 140, 171).    *)
(* A writer is [buf, err, file].  Records have unit size and BufRows of    *)
(* them fit the buffer.  k is what the disk does if the buffer is written  *)
(* out: it takes the first k records, and fails unless that is all.        *)
(***************************************************************************)
flushBuffer(w, k) ==
    IF w.err \/ w.buf = <<>> THEN w
    ELSE IF k >= Len(w.buf)
    THEN [buf |-> <<>>, err |-> FALSE, file |-> w.file \o w.buf]
    ELSE [buf |-> SubSeq(w.buf, k + 1, Len(w.buf)), err |-> TRUE,
          file |-> w.file \o SubSeq(w.buf, 1, k)]

\* writer.Write(record): the writer after the call; the call failed iff err.
writerWrite(w, record, k) ==
    LET f == IF Len(w.buf) + 1 > BufRows THEN flushBuffer(w, k) ELSE w
    IN  IF f.err THEN f ELSE [f EXCEPT !.buf = Append(f.buf, record)]

\* writer.Flush()
writerFlush(w, k) == flushBuffer(w, k)

(***************************************************************************)
(* Inputs                                                                  *)
(***************************************************************************)
ReleaseLabels == {"", "Release::Mar-26-2024", ReadyLabel}
BlockerLabels == {"", "blocker/staging-upgrade", "Release::Mar-26-2024"}
MainTokenFiles == {<<"token:", "glpat-1", "\n">>, <<"glpat-1">>}

GitlabIssuesLink ==
    <<"https://gitlab.com", "/", "f5", "/", "volterra", "/", "support", "/",
      "technical", "/", "-", "/", "issues", "/", "?",
      "sort=created_date&state=opened">>

ExampleLink ==
    <<"https://host", "/", "a", "/", "b", "/", "c", "/", "d", "/", "e", "?", "query">>

PathAtoms == {"/", "a", EscapedSlash, BadEscape}
Paths == {<<>>} \cup {<<"/">> \o p : p \in BoundedSeq(PathAtoms, MaxPathLen)}
Queries == {<<>>, <<"?", "query">>}
Links == {<<"https://host">> \o p \o q : p \in Paths, q \in Queries}
             \cup {ExampleLink, GitlabIssuesLink}

TokenAtoms == {" ", "\n", "\f", "token:", "abc123"}
TokenContents == BoundedSeq(TokenAtoms, MaxTokenLen)

(***************************************************************************)
(* Initial states                                                          *)
(***************************************************************************)
Idle ==
    /\ tokenFile = <<>>
    /\ gitlabToken = None
    /\ projectPath = None
    /\ issues = <<>>
    /\ idx = 0
    /\ detailedIssue = None
    /\ trace = <<>>
    /\ buf = <<>>
    /\ werr = FALSE
    /\ file = <<>>
    /\ fileState = "none"
    /\ exitCode = -1
    /\ errors = {}
    /\ logged = <<>>
    /\ stdout = <<>>
    /\ linkResult = None
    /\ tokenResult = None

\* main after flag.Parse (main.go:46-53)
InitMain ==
    /\ pc = "start"
    /\ releaseLabel \in ReleaseLabels
    /\ readyForTest \in BOOLEAN
    /\ blockerLabel \in BlockerLabels
    /\ link = GitlabIssuesLink
    /\ tokenContent = None
    /\ Idle

\* a call extractProjectPath(link)
InitLink ==
    /\ pc = "link_call"
    /\ link \in Links
    /\ releaseLabel = "" /\ readyForTest = FALSE /\ blockerLabel = ""
    /\ tokenContent = None
    /\ Idle

\* a token load from a file holding tokenContent
InitToken ==
    /\ pc = "token_call"
    /\ tokenContent \in TokenContents
    /\ releaseLabel = "" /\ readyForTest = FALSE /\ blockerLabel = ""
    /\ link = None
    /\ Idle

Init == InitMain \/ InitLink \/ InitToken

flagVars == <<releaseLabel, readyForTest, blockerLabel>>
callVars == <<link, linkResult, tokenContent, tokenResult>>
writerVars == <<buf, werr, file, fileState>>

(***************************************************************************)
(* The two function calls                                                  *)
(***************************************************************************)
ExtractCall ==
    /\ pc = "link_call"
    /\ LET r == extractProjectPath(link)
       IN  /\ linkResult' = [err |-> r.err, path |-> r.path]
           /\ logged' = logged \o r.logs
    /\ pc' = "link_done"
    /\ UNCHANGED <<flagVars, writerVars, tokenFile, gitlabToken, projectPath, issues,
                   idx, detailedIssue, trace, exitCode, errors, stdout,
                   link, tokenContent, tokenResult>>

TokenCall ==
    /\ pc = "token_call"
    /\ tokenResult' = loadToken(tokenContent).token
    /\ pc' = "token_done"
    /\ UNCHANGED <<flagVars, writerVars, tokenFile, gitlabToken, projectPath, issues,
                   idx, detailedIssue, trace, exitCode, errors, logged, stdout,
                   link, linkResult, tokenContent>>

(***************************************************************************)
(* main (main.go:44-177), one action per step.  log.Fatal* exits the       *)
(* process with status 1 at once: deferred calls do not run.               *)
(***************************************************************************)
loopNextSkip(i) == i + 2

\* the range loop of main.go:147 moves to the next issue
loopNext(i) == i + 1

Event(op, arg, ok) == [op |-> op, arg |-> arg, ok |-> ok]

\* main.go:55-58
Validate ==
    /\ pc = "start"
    /\ IF validationFails(releaseLabel, readyForTest)
       THEN /\ pc' = "fatal"
            /\ exitCode' = 1
            /\ errors' = errors \cup {"validation"}
            /\ logged' = Append(logged, <<"Release label is required when filtering by READY-FOR-TEST">>)
       ELSE /\ pc' = "resolveHome"
            /\ logged' = Append(logged, <<"Starting the program...">>)
            /\ UNCHANGED <<exitCode, errors>>
    /\ UNCHANGED <<flagVars, callVars, writerVars, tokenFile, gitlabToken, projectPath,
                   issues, idx, detailedIssue, trace, stdout>>

\* main.go:61-63
ResolveHome ==
    /\ pc = "resolveHome"
    /\ \E home \in {HomeError, HomeDir} :
          LET r == resolveHome(TokenFilePath, home)
          IN  /\ tokenFile' = r.path
              /\ logged' = logged \o r.logs \o << <<"Token file path: ">> \o r.path >>
              /\ errors' = IF home = HomeError THEN errors \cup {"home"} ELSE errors
    /\ pc' = "readToken"
    /\ UNCHANGED <<flagVars, callVars, writerVars, gitlabToken, projectPath, issues,
                   idx, detailedIssue, trace, exitCode, stdout>>

\* main.go:66-72
ReadToken ==
    /\ pc = "readToken"
    /\ \E read \in {ReadError} \cup MainTokenFiles :
          LET r == loadToken(read)
          IN  /\ trace' = Append(trace, Event("readFile", tokenFile, ~r.err))
              /\ IF r.err
                 THEN /\ pc' = "fatal"
                      /\ exitCode' = 1
                      /\ errors' = errors \cup {"tokenRead"}
                      /\ logged' = logged \o r.logs
                            \o << <<"Failed to read GitLab token from file: ">> \o ReadError >>
                      /\ UNCHANGED gitlabToken
                 ELSE /\ pc' = "extract"
                      /\ gitlabToken' = r.token
                      /\ logged' = logged \o r.logs
                      /\ UNCHANGED <<exitCode, errors>>
    /\ UNCHANGED <<flagVars, callVars, writerVars, tokenFile, projectPath, issues, idx,
                   detailedIssue, stdout>>

\* main.go:75-84
ExtractPath ==
    /\ pc = "extract"
    /\ LET r == extractProjectPath(link)
       IN  IF r.err # ""
           THEN /\ pc' = "fatal"
                /\ exitCode' = 1
                /\ errors' = errors \cup {"link"}
                /\ logged' = logged \o << <<"GitLab issues link: ">> \o link >> \o r.logs
                      \o << <<"Failed to extract project path: ", r.err>> >>
                /\ UNCHANGED projectPath
           ELSE /\ pc' = "newClient"
                /\ projectPath' = r.path
                /\ logged' = logged \o << <<"GitLab issues link: ">> \o link >> \o r.logs
                      \o << <<"Project path: ">> \o r.path >>
                /\ UNCHANGED <<exitCode, errors>>
    /\ UNCHANGED <<flagVars, callVars, writerVars, tokenFile, gitlabToken, issues, idx,
                   detailedIssue, trace, stdout>>

\* main.go:87-92
NewClient ==
    /\ pc = "newClient"
    /\ \E ok \in BOOLEAN :
          IF ~ok
          THEN /\ pc' = "fatal"
               /\ exitCode' = 1
               /\ errors' = errors \cup {"client"}
               /\ logged' = Append(logged, <<"Failed to create GitLab client: ", "<client error>">>)
          ELSE /\ pc' = "list"
               /\ logged' = Append(logged, <<"GitLab client created successfully.">>)
               /\ UNCHANGED <<exitCode, errors>>
    /\ UNCHANGED <<flagVars, callVars, writerVars, tokenFile, gitlabToken, projectPath,
                   issues, idx, detailedIssue, trace, stdout>>

\* main.go:93-120
ListIssues ==
    /\ pc = "list"
    /\ \E res \in {Failed} \cup Returned(IssueLists) :
          /\ trace' = Append(trace,
                 Event("list",
                       [project |-> projectPath, state |-> "opened", perPage |-> PerPage,
                        page |-> 0,
                        labels |-> lab(releaseLabel, readyForTest, blockerLabel),
                        notLabels |-> notLabels(readyForTest)],
                       ~res.err))
          /\ IF res.err
             THEN /\ pc' = "fatal"
                  /\ exitCode' = 1
                  /\ errors' = errors \cup {"list"}
                  /\ logged' = Append(logged, <<"Failed to list project issues: ", "<call error>">>)
                  /\ UNCHANGED issues
             ELSE /\ pc' = "create"
                  /\ issues' = res.val
                  /\ logged' = Append(logged, <<"Project issues listed successfully.">>)
                  /\ UNCHANGED <<exitCode, errors>>
    /\ UNCHANGED <<flagVars, callVars, writerVars, tokenFile, gitlabToken, projectPath,
                   idx, detailedIssue, stdout>>

\* main.go:123-124: the name carries the local time to the second
csvFileName == <<"issues_output_", "<2006-01-02_15-04-05 of time.Now()>", ".csv">>

\* main.go:123-136
CreateFile ==
    /\ pc = "create"
    /\ \E ok \in BOOLEAN :
          /\ trace' = Append(trace, Event("create", csvFileName, ok))
          /\ IF ~ok
             THEN /\ pc' = "fatal"
                  /\ exitCode' = 1
                  /\ errors' = errors \cup {"create"}
                  /\ logged' = Append(logged, <<"Failed to create CSV file: ", "<create error>">>)
                  /\ UNCHANGED <<buf, werr, file, fileState>>
             ELSE /\ pc' = "header"
                  /\ fileState' = "open"
                  /\ file' = <<>>
                  /\ buf' = <<>>
                  /\ werr' = FALSE
                  /\ logged' = Append(logged, <<"CSV file created: ">> \o csvFileName)
                  /\ UNCHANGED <<exitCode, errors>>
    /\ UNCHANGED <<flagVars, callVars, tokenFile, gitlabToken, projectPath, issues,
                   idx, detailedIssue, stdout>>

Writer == [buf |-> buf, err |-> werr, file |-> file]

\* writer.Write(record) followed by the check of its error
WriteRecord(record, msg, okLogs, next, nextIdx) ==
    \E k \in 0..Len(buf) :
       LET w == writerWrite(Writer, record, k)
       IN  /\ buf' = w.buf
           /\ werr' = w.err
           /\ file' = w.file
           /\ trace' = Append(trace, Event("write", record, ~w.err))
           /\ IF w.err
              THEN /\ pc' = "fatal"
                   /\ exitCode' = 1
                   /\ errors' = errors \cup {"write"}
                   /\ logged' = Append(logged, <<msg, "<write error>">>)
                   /\ UNCHANGED idx
              ELSE /\ pc' = next
                   /\ idx' = nextIdx
                   /\ logged' = logged \o okLogs
                   /\ UNCHANGED <<exitCode, errors>>

\* main.go:139-144
WriteHeader ==
    /\ pc = "header"
    /\ WriteRecord(header, "Failed to write header to CSV: ",
                   << <<"Header written to CSV successfully.">> >>, "loop", 1)
    /\ UNCHANGED <<flagVars, callVars, fileState, tokenFile, gitlabToken, projectPath,
                   issues, detailedIssue, stdout>>

\* main.go:147-157
GetIssue ==
    /\ pc = "loop"
    /\ idx <= Len(issues)
    /\ \E res \in {Failed} \cup Returned(DetailsOf(issues[idx].IID)) :
          /\ trace' = Append(trace,
                 Event("get", [project |-> projectPath, iid |-> issues[idx].IID],
                       ~res.err))
          /\ IF res.err
             THEN /\ pc' = "fatal"
                  /\ exitCode' = 1
                  /\ errors' = errors \cup {"detail"}
                  /\ logged' = Append(logged, <<"Failed to get detailed issue: ", "<call error>">>)
                  /\ UNCHANGED detailedIssue
             ELSE /\ pc' = "row"
                  /\ detailedIssue' = res.val
                  /\ UNCHANGED <<exitCode, errors, logged>>
    /\ UNCHANGED <<flagVars, callVars, writerVars, tokenFile, gitlabToken, projectPath,
                   issues, idx, stdout>>

\* main.go:160-174
WriteRow ==
    /\ pc = "row"
    /\ WriteRecord(row(issues[idx], detailedIssue), "Failed to write row to CSV: ",
                   <<>>, "loop", loopNext(idx))
    /\ UNCHANGED <<flagVars, callVars, fileState, tokenFile, gitlabToken, projectPath,
                   issues, detailedIssue, stdout>>

\* main.go:176-177 and the deferred calls of main.go:136 and 130, in that order:
\* writer.Flush() (its error is not looked at), then outputFile.Close().
Finish ==
    /\ pc = "loop"
    /\ idx > Len(issues)
    /\ stdout' = Append(stdout, "CSV file created successfully.")
    /\ \E k \in 0..Len(buf) :
          LET w == writerFlush(Writer, k)
          IN  /\ buf' = w.buf
              /\ werr' = w.err
              /\ file' = w.file
              /\ errors' = IF w.err THEN errors \cup {"write"} ELSE errors
    /\ fileState' = "closed"
    /\ pc' = "done"
    /\ exitCode' = 0
    /\ UNCHANGED <<flagVars, callVars, tokenFile, gitlabToken, projectPath, issues,
                   idx, detailedIssue, trace, logged>>

Next ==
    \/ ExtractCall
    \/ TokenCall
    \/ Validate
    \/ ResolveHome
    \/ ReadToken
    \/ ExtractPath
    \/ NewClient
    \/ ListIssues
    \/ CreateFile
    \/ WriteHeader
    \/ GetIssue
    \/ WriteRow
    \/ Finish

Spec == Init /\ [][Next]_vars

(***************************************************************************)
(* Views of the state used by the properties                               *)
(***************************************************************************)
InMain == pc \notin {"link_call", "link_done", "token_call", "token_done"}
Exited == pc \in {"done", "fatal"}

Lists == SelectSeq(trace, LAMBDA e : e.op = "list")
Gets == SelectSeq(trace, LAMBDA e : e.op = "get")
Writes == SelectSeq(trace, LAMBDA e : e.op = "write")
\* records the writer accepted (Write returned nil), in order
Accepted == [i \in 1..Len(SelectSeq(Writes, LAMBDA e : e.ok)) |->
                SelectSeq(Writes, LAMBDA e : e.ok)[i].arg]

\* position in trace of the n-th event with operation op (0 if there is none)
PosOf(op, n) ==
    LET S == {i \in 1..Len(trace) :
                /\ trace[i].op = op
                /\ Cardinality({j \in 1..i : trace[j].op = op}) = n}
    IN  IF S = {} THEN 0 ELSE CHOOSE i \in S : TRUE

ToSet(s) == {s[i] : i \in 1..Len(s)}

----------------------------------------------------------------------------
\* C1: when -ready-for-test is given with an empty release label, the run ends
\* in the fatal validation exit and nothing else has happened: no remote call,
\* no token-file read, no token path resolution, no output file.
C1_ValidationBeforeAnyCall ==
    (InMain /\ pc # "start" /\ readyForTest /\ releaseLabel = "")
        => /\ pc = "fatal"
           /\ exitCode = 1
           /\ trace = <<>>
           /\ tokenFile = <<>>
           /\ gitlabToken = None
           /\ fileState = "none"
           /\ errors = {"validation"}

C1_Witness ==
    /\ pc = "fatal"
    /\ readyForTest
    /\ releaseLabel = ""
    /\ blockerLabel # ""
    /\ errors = {"validation"}

\* C2: the list call receives as include-set exactly the release label (if
\* non-empty), READY-FOR-TEST (if ready-for-test) and the blocker label (if
\* non-empty); as exclude-set exactly {READY-FOR-TEST} if not ready-for-test and
\* the empty set otherwise; the empty label is in neither set.
C2_LabelSets ==
    \A i \in 1..Len(Lists) :
        LET a == Lists[i].arg
        IN  /\ ToSet(a.labels) =
                   (IF releaseLabel # "" THEN {releaseLabel} ELSE {})
                   \cup (IF readyForTest THEN {ReadyLabel} ELSE {})
                   \cup (IF blockerLabel # "" THEN {blockerLabel} ELSE {})
            /\ ToSet(a.notLabels) = (IF readyForTest THEN {} ELSE {ReadyLabel})
            /\ "" \notin ToSet(a.labels) \cup ToSet(a.notLabels)

C2_Witness ==
    /\ Len(Lists) = 1
    /\ ~readyForTest
    /\ releaseLabel = ""
    /\ blockerLabel # ""
    /\ Lists[1].arg.labels = <<blockerLabel>>
    /\ Lists[1].arg.notLabels = <<ReadyLabel>>

\* C3 (as claimed): once the output file is open, every exit of the process
\* (normal or fatal) leaves it closed with the buffer written out, so that,
\* unless the disk itself refused a write, the file holds every record the
\* writer accepted.
C3_FlushedOnEveryExit ==
    (Exited /\ fileState # "none" /\ "write" \notin errors)
        => /\ fileState = "closed"
           /\ buf = <<>>
           /\ file = Accepted

\* C4 (as claimed): every error other than the home-directory one is fatal:
\* once one has occurred the process has exited with status 1 without
\* printing the confirmation, the failed operation is the last one performed,
\* and a normal exit means no such error occurred.
C4_EveryErrorFatal ==
    LET fatalKinds == errors \ {"home"}
    IN  /\ fatalKinds # {} => (pc = "fatal" /\ exitCode = 1 /\ stdout = <<>>)
        /\ pc = "done" => fatalKinds = {}
        /\ \A i \in 1..Len(trace) : ~trace[i].ok => i = Len(trace)

\* C5: on a run that ends normally with no failed write, the file is the header
\* followed by one row per returned issue, in the order returned; row i carries
\* the number of issue i and, as assignee, its assignee's name or "Unassigned".
C5_ReportRows ==
    (pc = "done" /\ "write" \notin errors)
        => /\ Len(file) = 1 + Len(issues)
           /\ file[1] = header
           /\ \A i \in 1..Len(issues) :
                 LET r == file[i + 1]
                     n == Itoa(issues[i].IID)
                 IN  /\ Len(r) = 5
                     /\ SubSeq(r[1], 1, 1 + Len(n)) = <<"[#">> \o n
                     /\ r[1][2 + Len(n)] = "]("
                     /\ r[3] = (IF issues[i].Assignee = Nil
                                THEN <<"Unassigned">> ELSE issues[i].Assignee)
                     /\ \E d \in DetailsOf(issues[i].IID) : r[2] = d.Title

C5_Witness ==
    /\ pc = "done"
    /\ errors = {}
    /\ Len(issues) = 2
    /\ issues[1].Assignee # Nil
    /\ issues[2].Assignee = Nil
    /\ Len(file) = 3
    /\ file[3][3] = <<"Unassigned">>

\* non-empty segments of the URL path of a link
NonEmptySegments(l) == SelectSeq(Split(urlParse(l).Path, "/"), LAMBDA seg : seg # <<>>)

\* C6 (as claimed): extractProjectPath returns an error for every link whose
\* URL path has fewer than 4 non-empty segments.
C6_FewerThanFourNonEmptyFails ==
    (pc = "link_done" /\ Len(NonEmptySegments(link)) < 4) => linkResult.err # ""

\* the link without its query string
WithoutQuery(l) == <<Head(l)>> \o BeforeQuery(Tail(l))

Slashes(p) == {i \in 1..Len(p) : p[i] = "/"}

\* end of the fourth segment of a path that starts with "/": just before its
\* fifth slash, or the end of the path
FourthSegmentEnd(p) ==
    LET S == {i \in Slashes(p) : Cardinality({j \in Slashes(p) : j <= i}) = 5}
    IN  IF S = {} THEN Len(p) ELSE (CHOOSE i \in S : TRUE) - 1

F5ProjectPath == <<"f5", "/", "volterra", "/", "support", "/", "technical">>

\* C7: extractProjectPath ignores the query string and, for a link whose path
\* has at least four segments after the leading slash, returns the first four
\* joined by "/": a/b/c/d for https://host/a/b/c/d/e?query.  In main the
\* project path, and the project of every remote call, is
\* f5/volterra/support/technical.
C7_FirstFourSegments ==
    /\ pc = "link_done" =>
          /\ linkResult.err = extractProjectPath(WithoutQuery(link)).err
          /\ linkResult.path = extractProjectPath(WithoutQuery(link)).path
          /\ LET u == urlParse(link)
             IN  (~u.err /\ Cardinality(Slashes(u.Path)) >= 4) =>
                    /\ linkResult.err = ""
                    /\ linkResult.path = SubSeq(u.Path, 2, FourthSegmentEnd(u.Path))
          /\ link = ExampleLink =>
                linkResult = [err |-> "", path |-> <<"a", "/", "b", "/", "c", "/", "d">>]
    /\ (InMain /\ projectPath # None) => projectPath = F5ProjectPath
    /\ \A i \in 1..Len(Lists) : Lists[i].arg.project = F5ProjectPath
    /\ \A i \in 1..Len(Gets) : Gets[i].arg.project = F5ProjectPath

C7_Witness ==
    /\ pc = "link_done"
    /\ link = ExampleLink
    /\ linkResult.err = ""
    /\ linkResult.path = <<"a", "/", "b", "/", "c", "/", "d">>

\* C8 (as claimed): the token is the file content with surrounding whitespace
\* removed and one leading "token:" removed, and it neither starts nor ends
\* with whitespace.
C8_TokenTrimmed ==
    pc = "token_done" =>
        /\ tokenResult = TrimPrefix(TrimSpace(tokenContent), TokenPrefix)
        /\ tokenResult # <<>> =>
              (Head(tokenResult) \notin Space /\ tokenResult[Len(tokenResult)] \notin Space)

\* C9 (as claimed): a failed home-directory lookup is logged, leaves the token
\* path ~/.gitlab, and the run goes on to read that path; and it is the only
\* error the run survives: a normal exit has seen no other error.
C9_OnlyHomeFailureNonFatal ==
    /\ "home" \in errors =>
          /\ tokenFile = TokenFilePath
          /\ \E i \in 1..Len(logged) : logged[i] = HomeError
          /\ pc = "readToken" => exitCode = -1
          /\ \A i \in 1..Len(trace) :
                trace[i].op = "readFile" => trace[i].arg = TokenFilePath
    /\ exitCode = 0 => errors \subseteq {"home"}

\* row writes the writer accepted (the header is the first record written)
RowWrites == SelectSeq(Writes, LAMBDA e : e.ok /\ e.arg # header)

\* C10: at most one list call, for state "opened" with page size 100 and no
\* page asked for; detail calls only after it succeeded, one per issue in list
\* order, the i-th after row i-1 was written and before row i is; a run that
\* ends normally made as many detail calls as there are issues and wrote as
\* many rows.
C10_CallSequence ==
    /\ Len(Lists) <= 1
    /\ \A i \in 1..Len(Lists) :
          /\ Lists[i].arg.state = "opened"
          /\ Lists[i].arg.perPage = 100
          /\ Lists[i].arg.page = 0
    /\ Len(Gets) > 0 => (Len(Lists) = 1 /\ Lists[1].ok /\ PosOf("list", 1) < PosOf("get", 1))
    /\ Len(Gets) <= Len(issues)
    /\ \A i \in 1..Len(Gets) :
          /\ Gets[i].arg.iid = issues[i].IID
          \* the header is write 1, row i is write i + 1
          /\ PosOf("write", i) # 0 /\ PosOf("write", i) < PosOf("get", i)
          /\ PosOf("write", i + 1) # 0 => PosOf("get", i) < PosOf("write", i + 1)
    /\ Len(RowWrites) <= Len(Gets)
    /\ Len(Gets) <= Len(RowWrites) + 1
    /\ pc = "done" => (Len(Gets) = Len(issues) /\ Len(RowWrites) = Len(issues))

C10_Witness ==
    /\ pc = "done"
    /\ Len(issues) = 2
    /\ Len(Gets) = 2
    /\ Len(RowWrites) = 2

====
